---- MODULE Spec2Model ----
(***************************************************************************)
(* A model of botport (src/botport.ts): the client's pending-call table    *)
(* with its timeout / keep-alive protocol (BotAPIClient), and the server's *)
(* Response objects, route table and dispatch (BotAPIResponse,             *)
(* BotAPIServer), the request line from makeRequest to the handler's req, *)
(* and the one-shot calls docs() and routes().                             *)
(***************************************************************************)
EXTENDS Integers, Sequences, FiniteSets, TLC

(***************************************************************************)
(* Bounds of the model.                                                    *)
(***************************************************************************)
\* the per-call timeout, in clock ticks
Timeout == 2
\* how many well-formed keep-alives one call is sent at most
MaxUpdates == 2
\* a live call's age is counted up to here, past its timeout
MaxAge == Timeout + 1

\* the calls the client makes; call c is carried by the message with id c
Calls == {1, 2}
\* the id of a message of the channel that carries no call of this client
OtherId == 0
\* "the message is no reply": message.reference?.messageId is undefined
NoRef == -1
\* the author ids of the channel: the target bot and anybody else
targetBotId == "target"

(***************************************************************************)
(* The response line "STATUS JSON-BODY", as a sequence of characters.      *)
(***************************************************************************)
\* parseInt's results: a number, or NaN
NaN == [nan |-> TRUE]
Num(n) == [nan |-> FALSE, value |-> n]
Digits == {"0", "1", "2", "3", "4", "5", "6", "7", "8", "9"}
DigitVal(ch) ==
    CASE ch = "0" -> 0 [] ch = "1" -> 1 [] ch = "2" -> 2 [] ch = "3" -> 3
      [] ch = "4" -> 4 [] ch = "5" -> 5 [] ch = "6" -> 6 [] ch = "7" -> 7
      [] ch = "8" -> 8 [] ch = "9" -> 9

\* content.indexOf(ch): the 0-based index of the first ch, -1 when none
IndexOf(s, ch) ==
    IF \E i \in 1..Len(s) : s[i] = ch
    THEN (CHOOSE i \in 1..Len(s) : s[i] = ch /\ \A j \in 1..(i - 1) : s[j] # ch) - 1
    ELSE -1

\* content.substring(from) and content.substring(from, to), 0-based
Substring(s, from, to) == SubSeq(s, from + 1, to)

\* the value of the leading run of digits of s, read left to right
RECURSIVE DigitRun(_, _, _)
DigitRun(s, i, acc) ==
    IF i > Len(s) \/ s[i] \notin Digits THEN acc
    ELSE DigitRun(s, i + 1, acc * 10 + DigitVal(s[i]))

\* parseInt(s, 10): an optional sign, then the leading digits; NaN without one
ParseInt(s) ==
    LET neg == Len(s) > 0 /\ s[1] = "-"
        t == IF neg THEN Tail(s) ELSE s
    IN  IF Len(t) = 0 \/ t[1] \notin Digits THEN NaN
        ELSE IF neg THEN Num(0 - DigitRun(t, 1, 0)) ELSE Num(DigitRun(t, 1, 0))

\* s without its leading and trailing blanks (JSON.parse skips them)
RECURSIVE Trim(_)
Trim(s) ==
    IF Len(s) = 0 THEN s
    ELSE IF s[1] = " " THEN Trim(Tail(s))
    ELSE IF s[Len(s)] = " " THEN Trim(SubSeq(s, 1, Len(s) - 1))
    ELSE s

\* a JSON number without fraction or exponent: -?(0|[1-9][0-9]*)
IsJsonInt(s) ==
    LET t == IF Len(s) > 0 /\ s[1] = "-" THEN Tail(s) ELSE s
    IN  /\ Len(t) > 0
        /\ \A i \in 1..Len(t) : t[i] \in Digits
        /\ (Len(t) > 1 => t[1] # "0")

\* JSON values: null, {} (an object), [] (a list), numbers, strings,
\* booleans, and the undefined of an option that was not given
JNull == [type |-> "null"]
JObject == [type |-> "object"]
JArray == [type |-> "array"]
JNumber(n) == [type |-> "number", n |-> n]
JString(s) == [type |-> "string", s |-> s]
JBool(b) == [type |-> "boolean", b |-> b]
Undefined == [type |-> "undefined"]

\* the text of a JSON string literal: quotes around characters that need no
\* escape
IsJsonString(t) ==
    /\ Len(t) >= 2 /\ t[1] = "\"" /\ t[Len(t)] = "\""
    /\ \A i \in 2..(Len(t) - 1) : t[i] \notin {"\"", "\\"}

\* a parse that takes any text for an object
JsonParseAny(s) == [ok |-> TRUE, value |-> JObject]

\* JSON.parse(s) over the texts of the model: {}, [], integers, string
\* literals, true, false and null parse, all else throws
JsonParse(s) ==
    LET t == Trim(s)
    IN  IF t = <<"{", "}">> THEN [ok |-> TRUE, value |-> JObject]
        ELSE IF t = <<"[", "]">> THEN [ok |-> TRUE, value |-> JArray]
        ELSE IF IsJsonInt(t) THEN [ok |-> TRUE, value |-> JNumber(ParseInt(t).value)]
        ELSE IF IsJsonString(t)
        THEN [ok |-> TRUE, value |-> JString(SubSeq(t, 2, Len(t) - 1))]
        ELSE IF t = <<"t", "r", "u", "e">> THEN [ok |-> TRUE, value |-> JBool(TRUE)]
        ELSE IF t = <<"f", "a", "l", "s", "e">> THEN [ok |-> TRUE, value |-> JBool(FALSE)]
        ELSE IF t = <<"n", "u", "l", "l">> THEN [ok |-> TRUE, value |-> JNull]
        ELSE [ok |-> FALSE, value |-> [type |-> "SyntaxError"]]

\* the decimal digits of a natural number
DigitChar(d) ==
    CASE d = 0 -> "0" [] d = 1 -> "1" [] d = 2 -> "2" [] d = 3 -> "3" [] d = 4 -> "4"
      [] d = 5 -> "5" [] d = 6 -> "6" [] d = 7 -> "7" [] d = 8 -> "8" [] d = 9 -> "9"
RECURSIVE NumberText(_)
NumberText(n) ==
    IF n < 10 THEN <<DigitChar(n)>> ELSE NumberText(n \div 10) \o <<DigitChar(n % 10)>>

\* JSON.stringify(v) for the values above
JsonStringify(v) ==
    CASE v.type = "object" -> <<"{", "}">>
      [] v.type = "array" -> <<"[", "]">>
      [] v.type = "number" ->
            IF v.n < 0 THEN <<"-">> \o NumberText(0 - v.n) ELSE NumberText(v.n)
      [] v.type = "string" -> <<"\"">> \o v.s \o <<"\"">>
      [] v.type = "boolean" ->
            IF v.b THEN <<"t", "r", "u", "e">> ELSE <<"f", "a", "l", "s", "e">>
      [] v.type = "null" -> <<"n", "u", "l", "l">>

\* the truthiness of a value, as if (body) tests it
Truthy(v) ==
    CASE v.type = "undefined" -> FALSE
      [] v.type = "null" -> FALSE
      [] v.type = "number" -> v.n # 0
      [] v.type = "string" -> v.s # <<>>
      [] v.type = "boolean" -> v.b
      [] OTHER -> TRUE

\* the reply lines the channel delivers
Contents == {
    <<"9", "9", " ", "{", "}">>,
    <<"1", "0", "0", " ", "{", "}">>,
    <<"1", "9", "9", " ", "{", "}">>,
    <<"2", "0", "0", " ", "{", "}">>,
    <<"9", "9", " ", "x">>,
    <<"1", "0", "0", " ", "x">>,
    <<"2", "0", "0", " ", "x">>,
    <<"2", "0", "0", "{", "}">>,
    <<"x", " ", "{", "}">> }

\* a well-formed final reply line
Content200 == <<"2", "0", "0", " ", "{", "}">>

Message(author, ref, content) == [author |-> author, ref |-> ref, content |-> content]

\* the inbound messages of the channel: every reply line from the target in
\* reply to a call's request, and a final reply line from somebody else, in
\* reply to nothing, or in reply to a message that carries no call
Messages ==
    {Message(targetBotId, c, content) : c \in Calls, content \in Contents}
    \cup {Message("other", c, Content200) : c \in Calls}
    \cup {Message(targetBotId, NoRef, Content200), Message(targetBotId, OtherId, Content200)}

(***************************************************************************)
(* State.                                                                  *)
(***************************************************************************)
VARIABLES
    calls,            \* per call: its promise, timer and counters
    pendingRequests,  \* the keys of BotAPIClient.pendingRequests
    routes,           \* BotAPIServer.routes
    reqs,             \* per inbound request: its dispatch, handler and Response
    replies,          \* per inbound message: the replies sent to it, in order
    oneShots,         \* per call of docs() or routes(): its wait and its promise
    last              \* the event handled last

vars == <<calls, pendingRequests, routes, reqs, replies, oneShots, last>>
clientVars == <<calls, pendingRequests, oneShots>>
serverVars == <<routes, reqs, replies>>

NoOutcome == [kind |-> "pending"]
TimeoutError == [kind |-> "rejected", error |-> "Request timed out"]
MalformedError == [kind |-> "rejected", error |-> "Malformed response"]
Resolved(status, body) == [kind |-> "resolved", status |-> status, body |-> body]

InitCall == [
    phase |-> "idle",       \* idle, sent (the request is in the channel), registered
    onUpdate |-> FALSE,     \* options.onUpdate was given
    timer |-> "none",       \* none, armed, cleared, fired
    age |-> 0,              \* ticks its live entry has waited (0 once it is gone)
    resolves |-> 0,         \* times the promise's resolve was invoked
    rejects |-> 0,          \* times the promise's reject was invoked
    outcome |-> NoOutcome,  \* what the promise settled to
    keepAlives |-> 0,       \* well-formed intermediate replies handled
    updates |-> 0 ]         \* times onUpdate was invoked

\* the inbound messages the server is sent; message r has id r
Requests == {1, 2}

InitReq == [
    state |-> "new",        \* new, ignored, failed, replied, running, returned, threw
    route |-> 0,            \* the index of the route whose handler was invoked
    method |-> <<>>,        \* req.method
    params |-> <<>>,        \* req.params, as <<key, value>> pairs in key order
    query |-> {},           \* req.query, as the set of its <<name, value>>
    pathname |-> <<>>,      \* req.path
    body |-> JNull,         \* req.body
    res |-> [originalMessage |-> 0, statusCode |-> 200, sentFinal |-> FALSE],
    jsonCalls |-> 0,        \* times json() was called by the handler
    calledFinal |-> FALSE ] \* json() was called with a status >= 200

\* the calls of docs() and of routes(); call i is carried by the message
\* with id i
DocsCalls == {11, 12}
RoutesCalls == {21, 22}
OneShotCalls == DocsCalls \cup RoutesCalls

InitOneShot == [
    phase |-> "idle",       \* idle, sent, waiting (awaitMessages), fetching, done
    age |-> 0,              \* ticks awaitMessages has waited
    settled |-> "pending",  \* pending, resolved, rejected
    value |-> JNull,        \* what the promise resolved to
    error |-> "",           \* the message of the Error it was rejected with
    cause |-> "",           \* why it was rejected: time, shape, fetch
    reply |-> <<>> ]        \* the content of the reply awaitMessages collected

Init ==
    /\ oneShots = [i \in OneShotCalls |-> InitOneShot]
    /\ calls = [c \in Calls |-> InitCall]
    /\ pendingRequests = {}
    /\ routes = <<>>
    /\ reqs = [r \in Requests |-> InitReq]
    /\ replies = [r \in Requests |-> <<>>]
    /\ last = [kind |-> "init"]

(***************************************************************************)
(* BotAPIClient: the promise of a call, its timer, the pending table.      *)
(***************************************************************************)
\* the promise's resolve: counted, and the first settlement is the one kept
Resolve(call, response) ==
    [call EXCEPT !.resolves = @ + 1, !.age = 0,
                 !.outcome = IF @ = NoOutcome THEN response ELSE @]

\* the promise's reject
Reject(call, error) ==
    [call EXCEPT !.rejects = @ + 1, !.age = 0,
                 !.outcome = IF @ = NoOutcome THEN error ELSE @]

\* a clearTimeout that leaves the timer armed
ClearTimeoutKeeps(call) == call

\* clearTimeout(pending.timeoutId): disarms an armed timer, else nothing
ClearTimeout(call) ==
    [call EXCEPT !.timer = IF @ = "armed" THEN "cleared" ELSE @]

\* pending.onUpdate?.(response)
InvokeOnUpdate(call) ==
    [call EXCEPT !.keepAlives = @ + 1,
                 !.updates = IF call.onUpdate THEN @ + 1 ELSE @]

\* a delete that leaves the entry in the table
DeleteKeeps(table, id) == table

\* this.pendingRequests.delete(id)
Delete(table, id) == table \ {id}

\* a first test that does not look at the author
FromTargetAnyAuthor(m) == m.ref # NoRef

\* handleReply's first test: the message is a reply of the target
FromTarget(m) == m.author = targetBotId /\ m.ref # NoRef

\* this.pendingRequests.get(message.reference.messageId) finds an entry
HasPending(m) == m.ref \in pendingRequests

\* status >= 100 && status < 200: an update, the keep-alive signal
IsUpdate(status) == status >= 100 /\ status < 200

\* catch tests that put the boundary above 200, and at 100
IsFinalStatusAbove200(status) == status > 200
IsFinalStatusFrom100(status) == status >= 100

\* the catch branch's test: a reply that fails to parse rejects the call
IsFinalStatus(status) == status >= 200

\* a timer whose callback runs before its delay has passed
TimerDueAtOnce(call) == call.timer = "armed"

\* the timer's callback runs once its delay has passed
TimerDue(call) == call.timer = "armed" /\ call.age >= Timeout

\* makeRequest up to the await: the request line is sent to the channel
MakeRequest(c, upd) ==
    /\ calls[c].phase = "idle"
    /\ calls' = [calls EXCEPT ![c].phase = "sent", ![c].onUpdate = upd]
    /\ last' = [kind |-> "send", call |-> c]
    /\ UNCHANGED <<pendingRequests, oneShots, serverVars>>

\* makeRequest after the await: the timer is armed and the entry is set
RegisterPending(c) ==
    /\ calls[c].phase = "sent"
    /\ calls' = [calls EXCEPT ![c].phase = "registered", ![c].timer = "armed"]
    /\ pendingRequests' = pendingRequests \cup {c}
    /\ last' = [kind |-> "register", call |-> c]
    /\ UNCHANGED <<oneShots, serverVars>>

\* the setTimeout callback of makeRequest
TimerFire(c) ==
    /\ TimerDue(calls[c])
    /\ pendingRequests' = Delete(pendingRequests, c)
    /\ calls' = [calls EXCEPT ![c] = Reject([@ EXCEPT !.timer = "fired"], TimeoutError)]
    /\ last' = [kind |-> "timer", call |-> c]
    /\ UNCHANGED <<oneShots, serverVars>>

\* handleReply's effect on the call its message refers to
ReplyEffect(m) ==
    LET c == m.ref
        content == m.content
        firstSpaceIndex == IndexOf(content, " ")
        statusStr == Substring(content, 0, firstSpaceIndex)
        bodyStr == Substring(content, firstSpaceIndex + 1, Len(content))
        parsedInt == ParseInt(statusStr)
        status == parsedInt.value
        parsed == JsonParse(bodyStr)
    IN  IF firstSpaceIndex = -1 THEN UNCHANGED <<calls, pendingRequests>>
        ELSE IF parsedInt = NaN THEN UNCHANGED <<calls, pendingRequests>>
        ELSE IF parsed.ok
        THEN IF IsUpdate(status)
             THEN /\ calls[c].keepAlives < MaxUpdates
                  /\ calls' = [calls EXCEPT ![c] = InvokeOnUpdate(ClearTimeout(@))]
                  /\ UNCHANGED pendingRequests
             ELSE /\ calls' = [calls EXCEPT ![c] =
                                  Resolve(ClearTimeout(@), Resolved(status, parsed.value))]
                  /\ pendingRequests' = Delete(pendingRequests, c)
        ELSE IF IsFinalStatus(status)
             THEN /\ calls' = [calls EXCEPT ![c] = Reject(ClearTimeout(@), MalformedError)]
                  /\ pendingRequests' = Delete(pendingRequests, c)
             ELSE UNCHANGED <<calls, pendingRequests>>

\* the client's MessageCreate listener
HandleReply(m) ==
    /\ last' = [kind |-> "reply", msg |-> m]
    /\ UNCHANGED <<oneShots, serverVars>>
    /\ IF ~FromTarget(m) THEN UNCHANGED <<calls, pendingRequests>>
       ELSE IF ~HasPending(m) THEN UNCHANGED <<calls, pendingRequests>>
       ELSE ReplyEffect(m)

\* time passes: every live entry grows one tick older
Tick ==
    /\ \E c \in pendingRequests : calls[c].age < MaxAge
    /\ calls' = [c \in Calls |->
                    IF c \in pendingRequests /\ calls[c].age < MaxAge
                    THEN [calls[c] EXCEPT !.age = @ + 1] ELSE calls[c]]
    /\ last' = [kind |-> "tick"]
    /\ UNCHANGED <<pendingRequests, oneShots, serverVars>>

Next ==
    \/ \E c \in Calls, upd \in BOOLEAN : MakeRequest(c, upd)
    \/ \E c \in Calls : RegisterPending(c)
    \/ \E c \in Calls : TimerFire(c)
    \/ \E m \in Messages : HandleReply(m)
    \/ Tick

Spec == Init /\ [][Next]_vars

\* the loop runs due timers, and time passes while an entry is live
FairSpec ==
    /\ Spec
    /\ WF_vars(Tick)
    /\ \A c \in Calls : WF_vars(TimerFire(c))

(***************************************************************************)
(* BotAPIClient.docs and BotAPIClient.routes: one request, one reply       *)
(* collected by transport.awaitMessages within defaultTimeout.             *)
(***************************************************************************)
\* the messages of the Errors docs() and routes() throw
DocsFailed == "Failed to fetch docs: Request timed out or invalid response."
RoutesFailed == "Failed to fetch routes: Request timed out or received no reply."
NoSeparator == "Malformed routes response: No space separator."
InvalidJson == "Malformed routes response: Invalid JSON."
NoAttachment == "No attachment found in docs response."

\* e.message.includes('Malformed')
IncludesMalformed(error) == error \in {NoSeparator, InvalidJson}

\* the catch of docs(): whatever was thrown, one Error is thrown in its place
DocsCatch(error) == DocsFailed

\* the catch of routes(): its own Malformed errors are thrown on, anything
\* else (the rejection of awaitMessages is no Error) is replaced
RoutesCatch(error) == IF IncludesMalformed(error) THEN error ELSE RoutesFailed

\* a channel message as docs() and routes() see it
OneShotMessage(author, ref, content, attachment) ==
    [author |-> author, ref |-> ref, content |-> content, attachment |-> attachment]

\* the replies the channel delivers: to a call of docs() a message with
\* and one without a file, to a call of routes() lines with a list, with an
\* object, with no JSON, with no blank; and messages that are no such reply
OneShotContents == {
    <<"2", "0", "0", " ", "[", "]">>,
    <<"2", "0", "0", " ", "{", "}">>,
    <<"2", "0", "0", " ", "x">>,
    <<"2", "0", "0">> }
OneShotMessages ==
    {OneShotMessage(targetBotId, i, <<>>, a) : i \in DocsCalls, a \in BOOLEAN}
    \cup {OneShotMessage(targetBotId, i, content, FALSE) :
              i \in RoutesCalls, content \in OneShotContents}
    \cup {OneShotMessage("other", i, <<"2", "0", "0", " ", "[", "]">>, TRUE) : i \in OneShotCalls}
    \cup {OneShotMessage(targetBotId, NoRef, <<"2", "0", "0", " ", "[", "]">>, TRUE)}

Rejected(shot, error, cause) ==
    [shot EXCEPT !.phase = "done", !.settled = "rejected", !.error = error, !.cause = cause]
Returned(shot, value) ==
    [shot EXCEPT !.phase = "done", !.settled = "resolved", !.value = value]

\* docs() and routes() up to the await of transport.send
OneShotSend(i) ==
    /\ oneShots[i].phase = "idle"
    /\ oneShots' = [oneShots EXCEPT ![i].phase = "sent"]
    /\ last' = [kind |-> "oneshot"]
    /\ UNCHANGED <<calls, pendingRequests, serverVars>>

\* transport.awaitMessages is called: the collector starts to listen
AwaitMessages(i) ==
    /\ oneShots[i].phase = "sent"
    /\ oneShots' = [oneShots EXCEPT ![i].phase = "waiting"]
    /\ last' = [kind |-> "oneshot"]
    /\ UNCHANGED <<calls, pendingRequests, serverVars>>

\* the filter of awaitMessages
Filter(i, m) == m.author = targetBotId /\ m.ref = i

\* docs() after the collector has returned the reply m
DocsReply(shot, m) ==
    IF m.attachment THEN [shot EXCEPT !.phase = "fetching", !.reply = m.content]
    ELSE Rejected([shot EXCEPT !.reply = m.content], DocsCatch(NoAttachment), "shape")

\* routes() after the collector has returned the reply m
RoutesReply(shot, m) ==
    LET content == m.content
        firstSpaceIndex == IndexOf(content, " ")
        jsonStr == Substring(content, firstSpaceIndex + 1, Len(content))
        kept == [shot EXCEPT !.reply = m.content]
    IN  IF firstSpaceIndex = -1 THEN Rejected(kept, RoutesCatch(NoSeparator), "shape")
        ELSE IF ~JsonParse(jsonStr).ok THEN Rejected(kept, RoutesCatch(InvalidJson), "shape")
        ELSE Returned(kept, JsonParse(jsonStr).value)

\* a message arrives in the channel: the collector of the call it passes
\* the filter of ends with it (max: 1)
OneShotReply(m) ==
    /\ oneShots' = [i \in OneShotCalls |->
                       IF oneShots[i].phase = "waiting" /\ Filter(i, m)
                       THEN IF i \in DocsCalls THEN DocsReply(oneShots[i], m)
                            ELSE RoutesReply(oneShots[i], m)
                       ELSE oneShots[i]]
    /\ last' = [kind |-> "oneshot"]
    /\ UNCHANGED <<calls, pendingRequests, serverVars>>

\* fetch(attachment.url) and text() end: with the text, or by throwing
Fetch(i, ok) ==
    /\ oneShots[i].phase = "fetching"
    /\ oneShots' = [oneShots EXCEPT ![i] =
                       IF ok THEN Returned(@, [type |-> "text"])
                       ELSE Rejected(@, DocsCatch("fetch failed"), "fetch")]
    /\ last' = [kind |-> "oneshot"]
    /\ UNCHANGED <<calls, pendingRequests, serverVars>>

\* the time of awaitMessages is over: it rejects (errors: ['time'])
TimeUp(i) ==
    /\ oneShots[i].phase = "waiting"
    /\ oneShots[i].age >= Timeout
    /\ oneShots' = [oneShots EXCEPT ![i] =
                       IF i \in DocsCalls THEN Rejected(@, DocsCatch("time"), "time")
                       ELSE Rejected(@, RoutesCatch("time"), "time")]
    /\ last' = [kind |-> "oneshot"]
    /\ UNCHANGED <<calls, pendingRequests, serverVars>>

\* time passes for the collectors
OneShotTick ==
    /\ \E i \in OneShotCalls : oneShots[i].phase = "waiting" /\ oneShots[i].age < Timeout
    /\ oneShots' = [i \in OneShotCalls |->
                       IF oneShots[i].phase = "waiting" /\ oneShots[i].age < Timeout
                       THEN [oneShots[i] EXCEPT !.age = @ + 1] ELSE oneShots[i]]
    /\ last' = [kind |-> "oneshot"]
    /\ UNCHANGED <<calls, pendingRequests, serverVars>>

OneShotNext ==
    \/ \E i \in OneShotCalls : OneShotSend(i)
    \/ \E i \in OneShotCalls : AwaitMessages(i)
    \/ \E m \in OneShotMessages : OneShotReply(m)
    \/ \E i \in OneShotCalls, ok \in BOOLEAN : Fetch(i, ok)
    \/ \E i \in OneShotCalls : TimeUp(i)
    \/ OneShotTick

OneShotSpec == Init /\ [][OneShotNext]_vars

(***************************************************************************)
(* BotAPIServer: the route table and the decoding of a request.            *)
(***************************************************************************)
\* how many routes are registered at most
MaxRoutes == 2
\* how many times json() is called on one Response at most
MaxJson == 3

selfId == "server"

\* the method keywords of HttpMethod, as texts
GET == <<"G", "E", "T">>
POST == <<"P", "O", "S", "T">>
PUT == <<"P", "U", "T">>
PATCH == <<"P", "A", "T", "C", "H">>
DELETE == <<"D", "E", "L", "E", "T", "E">>
HttpMethods == {GET, POST, PUT, PATCH, DELETE}

\* String.toUpperCase, character by character
UpperChar(ch) ==
    CASE ch = "a" -> "A" [] ch = "b" -> "B" [] ch = "c" -> "C" [] ch = "d" -> "D"
      [] ch = "e" -> "E" [] ch = "f" -> "F" [] ch = "g" -> "G" [] ch = "h" -> "H"
      [] ch = "i" -> "I" [] ch = "j" -> "J" [] ch = "k" -> "K" [] ch = "l" -> "L"
      [] ch = "m" -> "M" [] ch = "n" -> "N" [] ch = "o" -> "O" [] ch = "p" -> "P"
      [] ch = "q" -> "Q" [] ch = "r" -> "R" [] ch = "s" -> "S" [] ch = "t" -> "T"
      [] ch = "u" -> "U" [] ch = "v" -> "V" [] ch = "w" -> "W" [] ch = "x" -> "X"
      [] ch = "y" -> "Y" [] ch = "z" -> "Z" [] OTHER -> ch
ToUpperCase(s) == [i \in 1..Len(s) |-> UpperChar(s[i])]

\* \w of a regular expression
WordChars == {"a", "b", "c", "x", "y", "_"} \cup Digits

\* the end of the longest run of characters of set cs in s that starts at i
\* (i - 1 when s[i] is none of them)
RunEnd(s, i, cs) ==
    CHOOSE j \in (i - 1)..Len(s) :
        /\ \A k \in i..j : s[k] \in cs
        /\ (j = Len(s) \/ s[j + 1] \notin cs)

\* command.split(/\s+/): the texts between the runs of blanks
RECURSIVE SplitWs(_)
SplitWs(s) ==
    IF IndexOf(s, " ") = -1 THEN <<s>>
    ELSE <<Substring(s, 0, IndexOf(s, " "))>>
             \o SplitWs(SubSeq(s, RunEnd(s, IndexOf(s, " ") + 1, {" "}) + 1, Len(s)))

\* parts.join(' ')
RECURSIVE Join(_)
Join(parts) ==
    IF parts = <<>> THEN <<>>
    ELSE IF Len(parts) = 1 THEN parts[1]
    ELSE parts[1] \o <<" ">> \o Join(Tail(parts))

\* the parts of a compiled pattern: the group ([^/]+) and a literal character
Group(key) == [group |-> TRUE, key |-> key, ch |-> ""]
Literal(ch) == [group |-> FALSE, key |-> <<>>, ch |-> ch]

\* register's path.replace(/:(\w+)/g, ...), from position i on: every :key
\* becomes the group ([^/]+), every other character stands for itself
RECURSIVE Compile(_, _)
Compile(path, i) ==
    IF i > Len(path) THEN <<>>
    ELSE IF path[i] = ":" /\ RunEnd(path, i + 1, WordChars) > i
    THEN << Group(SubSeq(path, i + 1, RunEnd(path, i + 1, WordChars))) >>
             \o Compile(path, RunEnd(path, i + 1, WordChars) + 1)
    ELSE << Literal(path[i]) >> \o Compile(path, i + 1)

\* the keys register pushes to paramKeys, in template order
RECURSIVE ParamKeys(_)
ParamKeys(regex) ==
    IF regex = <<>> THEN <<>>
    ELSE (IF regex[1].group THEN <<regex[1].key>> ELSE <<>>) \o ParamKeys(Tail(regex))

NoMatch == [ok |-> FALSE, caps |-> <<>>]
NotSlash(s) == {s[k] : k \in 1..Len(s)} \ {"/"}

\* s.match(^regex/?$) from token i and position j on: a group takes the
\* longest run without "/" that lets the rest match (greedy, backtracking)
RECURSIVE Exec(_, _, _, _)
RECURSIVE ExecGroup(_, _, _, _, _)
Exec(regex, i, s, j) ==
    IF i > Len(regex)
    THEN IF j > Len(s) \/ (j = Len(s) /\ s[j] = "/")
         THEN [ok |-> TRUE, caps |-> <<>>] ELSE NoMatch
    ELSE IF regex[i].group THEN ExecGroup(regex, i, s, j, RunEnd(s, j, NotSlash(s)))
    ELSE IF j <= Len(s) /\ s[j] = regex[i].ch THEN Exec(regex, i + 1, s, j + 1)
    ELSE NoMatch

ExecGroup(regex, i, s, j, k) ==
    IF k < j THEN NoMatch
    ELSE IF Exec(regex, i + 1, s, k + 1).ok
    THEN [ok |-> TRUE, caps |-> <<SubSeq(s, j, k)>> \o Exec(regex, i + 1, s, k + 1).caps]
    ELSE ExecGroup(regex, i, s, j, k - 1)

\* url.pathname.match(registeredRoute.pathRegex)
Match(pathname, pathRegex) == Exec(pathRegex, 1, pathname, 1)

\* the characters of the model that encodeURIComponent escapes, each with
\* the two hex digits of its escape
Escapes == {
    <<"/", <<"2", "F">>>>, <<"?", <<"3", "F">>>>, <<"=", <<"3", "D">>>>,
    <<"&", <<"2", "6">>>>, <<"%", <<"2", "5">>>>, <<" ", <<"2", "0">>>>,
    <<":", <<"3", "A">>>> }

\* encodeURIComponent(route): every character that is not unreserved is
\* replaced by its escape
RECURSIVE EncodeURIComponent(_)
EncodeURIComponent(s) ==
    IF s = <<>> THEN <<>>
    ELSE (IF \E e \in Escapes : e[1] = s[1]
          THEN <<"%">> \o (CHOOSE e \in Escapes : e[1] = s[1])[2]
          ELSE <<s[1]>>) \o EncodeURIComponent(Tail(s))

\* the character of an escape decodeURIComponent knows in the model, <<>>
\* for any other % sequence (it throws)
PercentDecoded(hex) ==
    IF \E e \in Escapes : e[2] = hex
    THEN <<(CHOOSE e \in Escapes : e[2] = hex)[1]>>
    ELSE <<>>

\* decodeURIComponent(rawRoute): the decoded text, or a thrown URIError
RECURSIVE DecodeURIComponent(_)
DecodeURIComponent(s) ==
    IF s = <<>> THEN [ok |-> TRUE, value |-> <<>>]
    ELSE IF s[1] # "%"
    THEN LET rest == DecodeURIComponent(Tail(s))
         IN  [ok |-> rest.ok, value |-> <<s[1]>> \o rest.value]
    ELSE IF Len(s) < 3 \/ PercentDecoded(SubSeq(s, 2, 3)) = <<>>
    THEN [ok |-> FALSE, value |-> <<>>]
    ELSE LET rest == DecodeURIComponent(SubSeq(s, 4, Len(s)))
         IN  [ok |-> rest.ok, value |-> PercentDecoded(SubSeq(s, 2, 3)) \o rest.value]

\* new URL(route, 'http://localhost').pathname: the text before the query,
\* made absolute
Pathname(route) ==
    LET q == IndexOf(route, "?")
        path == IF q = -1 THEN route ELSE Substring(route, 0, q)
    IN  IF path = <<>> \/ path[1] # "/" THEN <<"/">> \o path ELSE path

\* the text s split at every character ch
RECURSIVE SplitOn(_, _)
SplitOn(s, ch) ==
    IF IndexOf(s, ch) = -1 THEN <<s>>
    ELSE <<Substring(s, 0, IndexOf(s, ch))>>
             \o SplitOn(Substring(s, IndexOf(s, ch) + 1, Len(s)), ch)

\* the decoding of a name or value of url.searchParams: + is a blank, an
\* escape is its character, anything else stands for itself
RECURSIVE QueryDecode(_)
QueryDecode(s) ==
    IF s = <<>> THEN <<>>
    ELSE IF s[1] = "+" THEN <<" ">> \o QueryDecode(Tail(s))
    ELSE IF s[1] = "%" /\ Len(s) >= 3 /\ PercentDecoded(SubSeq(s, 2, 3)) # <<>>
    THEN PercentDecoded(SubSeq(s, 2, 3)) \o QueryDecode(SubSeq(s, 4, Len(s)))
    ELSE <<s[1]>> \o QueryDecode(Tail(s))

\* url.searchParams.entries(): the name=value pieces between the & of the
\* text after the ?, in order
SearchParams(route) ==
    LET q == IndexOf(route, "?")
        pieces == IF q = -1 THEN <<>> ELSE SplitOn(Substring(route, q + 1, Len(route)), "&")
        kept == SelectSeq(pieces, LAMBDA piece : piece # <<>>)
    IN  [i \in 1..Len(kept) |->
            LET eq == IndexOf(kept[i], "=")
            IN  IF eq = -1 THEN <<QueryDecode(kept[i]), <<>>>>
                ELSE <<QueryDecode(Substring(kept[i], 0, eq)),
                       QueryDecode(Substring(kept[i], eq + 1, Len(kept[i])))>>]

\* Object.fromEntries(entries): per name the value of its last entry, as
\* the set of <<name, value>>
FromEntries(entries) ==
    {entries[i] : i \in {j \in 1..Len(entries) :
                            \A k \in (j + 1)..Len(entries) : entries[k][1] # entries[j][1]}}

\* paramKeys.map((key, i) => [key, routeMatch[i + 1]])
Params(paramKeys, caps) == [i \in 1..Len(paramKeys) |-> <<paramKeys[i], caps[i]>>]

\* a loop in which the last matching route wins
RECURSIVE FindRouteLast(_, _, _, _)
FindRouteLast(table, method, pathname, i) ==
    IF i > Len(table) THEN 0
    ELSE IF FindRouteLast(table, method, pathname, i + 1) # 0
    THEN FindRouteLast(table, method, pathname, i + 1)
    ELSE IF table[i].method = method /\ Match(pathname, table[i].pathRegex).ok THEN i
    ELSE 0

\* a loop that does not look at the method of a route
RECURSIVE FindRouteAnyMethod(_, _, _, _)
FindRouteAnyMethod(table, method, pathname, i) ==
    IF i > Len(table) THEN 0
    ELSE IF Match(pathname, table[i].pathRegex).ok THEN i
    ELSE FindRouteAnyMethod(table, method, pathname, i + 1)

\* handleMessage's loop over this.routes from index i on: the index of the
\* first route with the method whose pattern matches the path, 0 when none
RECURSIVE FindRoute(_, _, _, _)
FindRoute(table, method, pathname, i) ==
    IF i > Len(table) THEN 0
    ELSE IF table[i].method # method THEN FindRoute(table, method, pathname, i + 1)
    ELSE IF Match(pathname, table[i].pathRegex).ok THEN i
    ELSE FindRoute(table, method, pathname, i + 1)

\* the route templates and the methods routes are registered with
Templates == { <<"/", "a">>, <<"/", ":", "x">>, <<"/", "a", "/", ":", "y">> }
RouteMethods == {GET, POST}

\* BotAPIServer.register, called by get, post, put, patch and delete
Register(method, path, docs) ==
    /\ Len(routes) < MaxRoutes
    /\ routes' = Append(routes, [method |-> method, path |-> path,
                                 pathRegex |-> Compile(path, 1),
                                 paramKeys |-> ParamKeys(Compile(path, 1)),
                                 handler |-> Len(routes) + 1, docs |-> docs])
    /\ last' = [kind |-> "register", method |-> method, path |-> path, docs |-> docs]
    /\ UNCHANGED <<clientVars, reqs, replies>>

(***************************************************************************)
(* BotAPIResponse, and the server's MessageCreate listener.                *)
(***************************************************************************)
\* a reply line "STATUS JSON-BODY", and the reply that carries the docs file
Line(status, body) == [kind |-> "line", status |-> status, body |-> body]
DocsFile == [kind |-> "file", status |-> 0, body |-> "api-docs.txt"]

\* what handlers pass to json(): an object, one with a cycle, on which
\* JSON.stringify throws, and one whose line is longer than a message may
\* be, on which originalMessage.reply rejects
Circular == [type |-> "circular"]
TooLong == [type |-> "too long"]
HandlerData == {JObject, Circular, TooLong}

\* a stringify that throws on nothing
StringifiesAll(data) == TRUE

Stringifies(data) == data # Circular
Transmits(data) == data # TooLong

\* the bodies {error: ...} of the replies the server makes up; a message
\* built from a template is the sequence of its parts
ErrorBody(parts) == [type |-> "object", error |-> parts]

\* a Response that replies to the first message, whatever it is made for
NewResponseShared(id) == [originalMessage |-> 1, statusCode |-> 200, sentFinal |-> FALSE]

\* new BotAPIResponse(originalMessage)
NewResponse(id) == [originalMessage |-> id, statusCode |-> 200, sentFinal |-> FALSE]

\* BotAPIResponse.status
Status(res, code) == [res EXCEPT !.statusCode = code]

\* a test for a final response that puts the boundary above 200
IsFinalResponseAbove200(res) == res.statusCode > 200

\* json's test for a final response
IsFinalResponse(res) == res.statusCode >= 200

\* BotAPIResponse.json: the Response after the call, and what it has sent
Json(res, data) ==
    IF res.sentFinal THEN [res |-> res, sent |-> <<>>]
    ELSE LET marked == IF IsFinalResponse(res) THEN [res EXCEPT !.sentFinal = TRUE] ELSE res
         IN  IF Stringifies(data) /\ Transmits(data)
             THEN [res |-> marked, sent |-> <<Line(res.statusCode, data)>>]
             ELSE IF ~marked.sentFinal
             THEN [res |-> [marked EXCEPT !.sentFinal = TRUE],
                   sent |-> <<Line(500, ErrorBody(<<"Failed to serialize response">>))>>]
             ELSE [res |-> marked, sent |-> <<>>]

\* originalMessage.reply(...): the replies go to the message the Response
\* was made for
Reply(all, id, sent) == [all EXCEPT ![id] = @ \o sent]

\* new BotAPIResponse(message).status(code).json(data), then return
ReplyOnce(r, code, data) ==
    /\ replies' = Reply(replies, NewResponse(r).originalMessage,
                        Json(Status(NewResponse(r), code), data).sent)
    /\ reqs' = [reqs EXCEPT ![r].state = "replied"]

\* a projection that lists the routes last to first
PublicRoutesReversed(table) ==
    [i \in 1..Len(table) |->
        [method |-> table[Len(table) + 1 - i].method,
         path |-> table[Len(table) + 1 - i].path,
         docs |-> table[Len(table) + 1 - i].docs]]

\* the projection of the routes the routes command replies with
PublicRoutes(table) ==
    [i \in 1..Len(table) |->
        [method |-> table[i].method, path |-> table[i].path, docs |-> table[i].docs]]

\* handleMessage from the split of the command on: method, route, body
HandleRequest(r, command) ==
    LET parts == SplitWs(command)
        method == ToUpperCase(parts[1])
        rawRoute == IF Len(parts) >= 2 THEN parts[2] ELSE <<"/">>
        bodyString == Join(SubSeq(parts, 3, Len(parts)))
        route == DecodeURIComponent(rawRoute)
        pathname == Pathname(route.value)
        query == FromEntries(SearchParams(route.value))
        found == FindRoute(routes, method, pathname, 1)
        body == JsonParse(bodyString)
    IN  IF ~route.ok
        THEN reqs' = [reqs EXCEPT ![r].state = "failed"] /\ UNCHANGED replies
        ELSE IF method \notin HttpMethods
        THEN ReplyOnce(r, 400, ErrorBody(<<"Invalid method", method>>))
        ELSE IF found = 0
        THEN ReplyOnce(r, 404, ErrorBody(<<"Route not found", method, pathname>>))
        ELSE IF bodyString # <<>> /\ ~body.ok
        THEN ReplyOnce(r, 400, ErrorBody(<<"Invalid JSON body">>))
        ELSE /\ reqs' = [reqs EXCEPT
                    ![r].state = "running",
                    ![r].route = found,
                    ![r].method = method,
                    ![r].pathname = pathname,
                    ![r].params = Params(routes[found].paramKeys,
                                         Match(pathname, routes[found].pathRegex).caps),
                    ![r].query = query,
                    ![r].body = IF bodyString # <<>> THEN body.value ELSE JNull,
                    ![r].res = NewResponse(r)]
             /\ UNCHANGED replies

\* the reserved commands
DocsCommand == <<"d", "o", "c", "s">>
RoutesCommand == <<"r", "o", "u", "t", "e", "s">>

\* BotAPIServer.handleMessage, up to the call of the handler
HandleMessage(r, msg) ==
    /\ reqs[r].state = "new"
    /\ last' = [kind |-> "message", req |-> r, msg |-> msg, routes |-> routes]
    /\ UNCHANGED <<clientVars, routes>>
    /\ IF msg.author = selfId \/ ~msg.addressed
       THEN reqs' = [reqs EXCEPT ![r].state = "ignored"] /\ UNCHANGED replies
       ELSE IF Trim(msg.command) = <<>> \/ Trim(msg.command) = DocsCommand
       THEN /\ replies' = Reply(replies, r, <<DocsFile>>)
            /\ reqs' = [reqs EXCEPT ![r].state = "replied"]
       ELSE IF Trim(msg.command) = RoutesCommand
       THEN /\ replies' = Reply(replies, r, <<Line(200, PublicRoutes(routes))>>)
            /\ reqs' = [reqs EXCEPT ![r].state = "replied"]
       ELSE HandleRequest(r, Trim(msg.command))

\* the handler, or work it has started, calls res.status(code)
ResStatus(r, code) ==
    /\ reqs[r].state \in {"running", "returned", "threw"}
    /\ reqs' = [reqs EXCEPT ![r].res = Status(@, code)]
    /\ last' = [kind |-> "status", req |-> r]
    /\ UNCHANGED <<clientVars, routes, replies>>

\* the handler, or work it has started, calls res.json(data)
ResJson(r, data) ==
    /\ reqs[r].state \in {"running", "returned", "threw"}
    /\ reqs[r].jsonCalls < MaxJson
    /\ reqs' = [reqs EXCEPT ![r].res = Json(@, data).res,
                            ![r].jsonCalls = @ + 1,
                            ![r].calledFinal = @ \/ reqs[r].res.statusCode >= 200]
    /\ replies' = Reply(replies, reqs[r].res.originalMessage, Json(reqs[r].res, data).sent)
    /\ last' = [kind |-> "json", req |-> r, data |-> data]
    /\ UNCHANGED <<clientVars, routes>>

\* await registeredRoute.handler(req, res) returns
HandlerReturn(r) ==
    /\ reqs[r].state = "running"
    /\ reqs' = [reqs EXCEPT ![r].state = "returned"]
    /\ last' = [kind |-> "return", req |-> r]
    /\ UNCHANGED <<clientVars, routes, replies>>

InternalServerError == ErrorBody(<<"Internal Server Error">>)

\* the handler throws or rejects: handleMessage's catch
HandlerThrow(r) ==
    /\ reqs[r].state = "running"
    /\ IF ~reqs[r].res.sentFinal
       THEN /\ reqs' = [reqs EXCEPT
                   ![r].state = "threw",
                   ![r].res = Json(Status(@, 500), InternalServerError).res]
            /\ replies' = Reply(replies, reqs[r].res.originalMessage,
                                Json(Status(reqs[r].res, 500), InternalServerError).sent)
       ELSE /\ reqs' = [reqs EXCEPT ![r].state = "threw"]
            /\ UNCHANGED replies
    /\ last' = [kind |-> "throw", req |-> r]
    /\ UNCHANGED <<clientVars, routes>>

\* the status codes handlers set
StatusCodes == {100, 200}

\* a message of the channel; command is its text after the mention and :api
Command(author, addressed, command) ==
    [author |-> author, addressed |-> addressed, command |-> command]

\* a request line as anybody may type it: method keyword, route text, body
\* text, blanks between them
Request(method, rawRoute, body) ==
    Command("client", TRUE,
            method \o (IF rawRoute = <<>> THEN <<>> ELSE <<" ">> \o rawRoute)
                   \o (IF body = <<>> THEN <<>> ELSE <<" ">> \o body))

\* a call of the client: makeRequest(method, route, {body}), the route given
\* by its path and its query entries
Call(method, path, query, body) ==
    [method |-> method, path |-> path, query |-> query, body |-> body]

\* the route text of a call: the path, then ?name=value&... if there is a
\* query, names and values escaped
RECURSIVE QueryText(_)
QueryText(query) ==
    IF query = <<>> THEN <<>>
    ELSE EncodeURIComponent(query[1][1]) \o <<"=">> \o EncodeURIComponent(query[1][2])
             \o (IF Len(query) = 1 THEN <<>> ELSE <<"&">> \o QueryText(Tail(query)))
RouteOf(call) ==
    call.path \o (IF call.query = <<>> THEN <<>> ELSE <<"?">> \o QueryText(call.query))

\* makeRequest's requestString, after the mention and :api: the method, the
\* encoded route and, if (body), the serialised body
RequestString(method, route, body) ==
    method \o <<" ">> \o EncodeURIComponent(route)
           \o (IF Truthy(body) THEN <<" ">> \o JsonStringify(body) ELSE <<>>)

\* the message that carries a call of the client
ClientMessage(call) ==
    Command("client", TRUE, RequestString(call.method, RouteOf(call), call.body))

\* the calls clients make
ClientCalls == {
    Call(GET, <<"/", "a">>, <<>>, Undefined),
    Call(GET, <<"/", "a", "%", "3", "F", "b">>, <<>>, Undefined),
    Call(POST, <<"/", "a">>, <<>>, JObject),
    Call(POST, <<"/", "a">>, << <<<<"k">>, <<"v">>>>, <<<<"x">>, <<"&">>>> >>, JObject),
    Call(POST, <<"/", "a">>, <<>>, JNumber(7)),
    Call(POST, <<"/", "a">>, <<>>, JNumber(0)),
    Call(POST, <<"/", "a">>, <<>>, JBool(FALSE)),
    Call(POST, <<"/", "a">>, <<>>, JString(<<>>)),
    Call(POST, <<"/", "a">>, <<>>, JString(<<"b", " ", "c">>)),
    Call(POST, <<"/", "a">>, <<>>, JString(<<"b", " ", " ", "c">>)) }

\* the messages of the channel the server sees
ServerMessages == {
    Command(selfId, TRUE, DocsCommand),
    Command("client", FALSE, DocsCommand),
    Command("client", TRUE, DocsCommand),
    Command("client", TRUE, <<>>),
    Command("client", TRUE, RoutesCommand),
    Request(<<"g", "e", "t">>, <<"/", "a">>, <<>>),
    Request(POST, <<"/", "a">>, <<"{", "}">>),
    Request(POST, <<"/", "a">>, <<"x">>),
    Request(POST, <<"/", "a">>, <<"{", "}", " ", "x">>),
    Request(POST, <<"/", "a", "/", "b", "c">>, <<"x">>),
    Request(POST, <<"/", "b">>, <<>>),
    Request(GET, <<"/", "b">>, <<>>),
    Request(GET, <<"/", "a", "/">>, <<>>),
    Request(GET, <<"/", "a", "/", "b", "c">>, <<>>),
    Request(GET, <<"/", "a", "%", "2", "F", "b">>, <<>>),
    Request(GET, <<"/", "a", "/", "b", "/", "c">>, <<>>),
    Request(GET, <<"%", "z">>, <<>>),
    Request(GET, <<>>, <<>>),
    Request(<<"F", "O", "O">>, <<>>, <<>>),
    Request(<<"F", "O", "O">>, <<"/", "a">>, <<"{", "}">>),
    Request(<<"F", "O", "O">>, <<"/", "b">>, <<"x">>),
    Request(<<"F", "O", "O">>, <<"%", "z">>, <<>>) }
    \cup {ClientMessage(call) : call \in ClientCalls}

\* the routes the program registers: GET /a with docs, the others without
Registrations ==
    {<<method, path, IF method = GET /\ path = <<"/", "a">> THEN "docs" ELSE "undefined">> :
        method \in RouteMethods, path \in Templates}
    \ {<<POST, <<"/", "a", "/", ":", "y">>, "undefined">>}

\* the server with one request at a time: any route table, any message
Sequential == {1}
ServerNext ==
    \/ \E reg \in Registrations : Register(reg[1], reg[2], reg[3])
    \/ \E r \in Sequential, msg \in ServerMessages : HandleMessage(r, msg)
    \/ \E r \in Sequential, code \in StatusCodes : ResStatus(r, code)
    \/ \E r \in Sequential, data \in HandlerData : ResJson(r, data)
    \/ \E r \in Sequential : HandlerReturn(r)
    \/ \E r \in Sequential : HandlerThrow(r)

ServerSpec == Init /\ [][ServerNext]_vars

\* the server with two requests whose handlers run interleaved, on one
\* route, with data that serialises
ConcurrentRegistrations == { <<GET, <<"/", "a">>, "undefined">> }
ConcurrentMessages == {
    Request(GET, <<"/", "a">>, <<>>),
    Request(GET, <<"/", "b">>, <<>>),
    Request(<<"F", "O", "O">>, <<"/", "a">>, <<>>) }
ConcurrentNext ==
    \/ \E reg \in ConcurrentRegistrations : Register(reg[1], reg[2], reg[3])
    \/ \E r \in Requests, msg \in ConcurrentMessages : HandleMessage(r, msg)
    \/ \E r \in Requests, code \in StatusCodes : ResStatus(r, code)
    \/ \E r \in Requests : ResJson(r, JObject)
    \/ \E r \in Requests : HandlerReturn(r)
    \/ \E r \in Requests : HandlerThrow(r)

ConcurrentSpec == Init /\ [][ConcurrentNext]_vars

(***************************************************************************)
(* The client's claims.  The reply lines are classified here by their      *)
(* text, not by the client's parse of them.                                *)
(***************************************************************************)
Settled(c) == calls[c].outcome # NoOutcome
Live(c) == c \in pendingRequests

\* the well-formed reply lines, each with the status it carries
WellFormed == {
    <<99, <<"9", "9", " ", "{", "}">>>>,
    <<100, <<"1", "0", "0", " ", "{", "}">>>>,
    <<199, <<"1", "9", "9", " ", "{", "}">>>>,
    <<200, <<"2", "0", "0", " ", "{", "}">>>> }
\* the reply lines whose body is no JSON, with a status >= 200 and < 200
MalformedFinal == { <<"2", "0", "0", " ", "x">> }
MalformedIntermediate == { <<"9", "9", " ", "x">>, <<"1", "0", "0", " ", "x">> }

\* the step handles message m, a reply of the target to the request of a
\* call whose entry is live
HandlesCorrelated(c, content) ==
    /\ last'.kind = "reply"
    /\ last'.msg = Message(targetBotId, c, content)
    /\ Live(c)

\* C1: once a call has received a well-formed reply with status in
\* [100,200), it is never rejected by its timer, and it is either still
\* pending or was settled by a reply with status >= 200
C1_SettledOnlyByFinal ==
    \A c \in Calls :
        calls[c].keepAlives > 0 =>
            \/ calls[c].outcome = NoOutcome
            \/ calls[c].outcome = MalformedError
            \/ calls[c].outcome.kind = "resolved" /\ calls[c].outcome.status >= 200

\* C2: resolve and reject of a call are invoked at most once in total, and
\* once the call is settled no step settles it again or invokes its onUpdate
C2_SettlesAtMostOnce ==
    /\ [](\A c \in Calls : calls[c].resolves + calls[c].rejects <= 1)
    /\ [][\A c \in Calls :
            Settled(c) =>
                /\ calls'[c].outcome = calls[c].outcome
                /\ calls'[c].resolves = calls[c].resolves
                /\ calls'[c].rejects = calls[c].rejects
                /\ calls'[c].updates = calls[c].updates
                /\ calls'[c].keepAlives = calls[c].keepAlives]_vars

\* a call resolved by one reply has since been sent another final reply
C2_Witness ==
    \E c \in Calls :
        /\ calls[c].outcome = Resolved(99, JObject)
        /\ calls[c].keepAlives > 0
        /\ last = [kind |-> "reply", msg |-> Message(targetBotId, c, Content200)]
        /\ \E d \in Calls : calls[d].outcome = TimeoutError

\* C5: a well-formed reply to a live call settles it if and only if its
\* status is >= 200; with a status < 200 the call stays pending, entry live
C5_SettlesIffFinal ==
    [][\A c \in Calls, w \in WellFormed :
          HandlesCorrelated(c, w[2]) =>
              IF w[1] >= 200
              THEN calls'[c].outcome = Resolved(w[1], JObject) /\ c \notin pendingRequests'
              ELSE calls'[c].outcome = NoOutcome /\ c \in pendingRequests']_vars

\* C6: a registered call is in the end rejected by its timer unless a reply
\* settles it or keeps it alive before; the timer does not reject it before
\* the timeout has passed, the rejection removes the entry, and the call is
\* not touched again
C6_TimesOut ==
    /\ \A c \in Calls : Live(c) ~> (Settled(c) \/ calls[c].keepAlives > 0)
    /\ [](\A c \in Calls :
            calls[c].outcome = TimeoutError =>
                /\ calls[c].timer = "fired"
                /\ calls[c].keepAlives = 0
                /\ ~Live(c))
    /\ [][\A c \in Calls :
            /\ calls'[c].outcome = TimeoutError /\ ~Settled(c) =>
                    last'.kind = "timer" /\ calls[c].age >= Timeout
            /\ calls[c].outcome = TimeoutError => calls'[c] = calls[c] /\ ~Live(c)']_vars

\* a call rejected by its timer has since been sent a final reply
C6_Witness ==
    \E c \in Calls :
        /\ calls[c].outcome = TimeoutError
        /\ calls[c].rejects = 1 /\ calls[c].resolves = 0
        /\ last = [kind |-> "reply", msg |-> Message(targetBotId, c, Content200)]

\* the message is one handleReply has to ignore
Ignorable(m) == m.author # targetBotId \/ m.ref = NoRef \/ m.ref \notin pendingRequests

\* C7: a message that is not of the target, or no reply, or a reply to
\* something without a live entry changes nothing on the client; a reply to
\* the request of call A changes nothing of another call B
C7_IgnoresUncorrelated ==
    [][last'.kind = "reply" =>
          /\ Ignorable(last'.msg) => UNCHANGED <<calls, pendingRequests>>
          /\ \A b \in Calls :
                b # last'.msg.ref => calls'[b] = calls[b] /\ (Live(b)' <=> Live(b))]_vars

\* somebody else has replied to the request of a live call, which is still
\* waiting with its timer armed, and so has the target to nothing
C7_Witness ==
    \E c \in Calls :
        /\ Live(c) /\ calls[c].timer = "armed" /\ ~Settled(c)
        /\ last = [kind |-> "reply", msg |-> Message("other", c, Content200)]

\* C8: a reply to a live call with a status >= 200 and a body that is no
\* JSON clears its timer, rejects it as malformed and removes its entry
C8_MalformedFinalRejects ==
    [][\A c \in Calls, content \in MalformedFinal :
          HandlesCorrelated(c, content) =>
              /\ calls'[c].outcome = MalformedError
              /\ calls'[c].rejects = calls[c].rejects + 1
              /\ calls'[c].resolves = calls[c].resolves
              /\ calls'[c].timer # "armed"
              /\ ~Live(c)']_vars

\* one call was rejected as malformed before any keep-alive, another after
C8_Witness ==
    \E c, d \in Calls :
        /\ calls[c].outcome = MalformedError /\ calls[c].keepAlives = 0
        /\ calls[d].outcome = MalformedError /\ calls[d].keepAlives > 0
        /\ calls[c].timer = "cleared" /\ calls[d].timer = "cleared"
        /\ pendingRequests = {}

\* C9: a reply to a live call with a status < 200 and a body that is no JSON
\* changes nothing: entry, timer, onUpdate count and promise stay as they are
C9_MalformedIntermediateIgnored ==
    [][\A c \in Calls, content \in MalformedIntermediate :
          HandlesCorrelated(c, content) => UNCHANGED <<calls, pendingRequests>>]_vars

\* a live call with its timer armed and due has just been sent a malformed
\* keep-alive
C9_Witness ==
    \E c \in Calls :
        /\ Live(c) /\ TimerDue(calls[c]) /\ calls[c].onUpdate
        /\ last = [kind |-> "reply",
                   msg |-> Message(targetBotId, c, <<"1", "0", "0", " ", "x">>)]

(***************************************************************************)
(* The server's claims.                                                    *)
(***************************************************************************)
\* the positions of the final reply lines (status >= 200) sent to message r
FinalLines(r) ==
    {i \in 1..Len(replies[r]) : replies[r][i].kind = "line" /\ replies[r][i].status >= 200}

\* C3: once json() was called with a status >= 200, no later json() on the
\* Response sends a message; a Response sends at most one line with a
\* status >= 200, and nothing after it
C3_NothingAfterFinal ==
    /\ [](\A r \in Requests :
            /\ Cardinality(FinalLines(r)) <= 1
            /\ FinalLines(r) \subseteq {Len(replies[r])})
    /\ [][\A r \in Requests : reqs[r].calledFinal => replies'[r] = replies[r]]_vars

\* after an intermediate and a final reply, json() was called once more with
\* an intermediate status, and has sent nothing
C3_Witness ==
    \E r \in Requests :
        /\ last.kind = "json" /\ last.req = r
        /\ reqs[r].jsonCalls = 3
        /\ reqs[r].res.statusCode = 100
        /\ replies[r] = <<Line(100, JObject), Line(200, JObject)>>

\* C4: when the handler throws, the server sends one 500 "Internal Server
\* Error" reply if no final reply was sent to the request yet, and nothing
\* if one was; the request gets at most one final reply
C4_ThrowRepliesOnce ==
    /\ [](\A r \in Requests : Cardinality(FinalLines(r)) <= 1)
    /\ [][\A r \in Requests :
            last'.kind = "throw" /\ last'.req = r /\ reqs[r].state = "running" =>
                IF FinalLines(r) = {}
                THEN replies'[r] = Append(replies[r], Line(500, InternalServerError))
                ELSE replies'[r] = replies[r]]_vars

\* the text s split at every "/"
RECURSIVE Split(_)
Split(s) ==
    IF IndexOf(s, "/") = -1 THEN <<s>>
    ELSE <<Substring(s, 0, IndexOf(s, "/"))>>
             \o Split(Substring(s, IndexOf(s, "/") + 1, Len(s)))

IsParamSegment(seg) == Len(seg) > 1 /\ seg[1] = ":"

\* the segments of a path fit those of a template: as many, a named
\* parameter takes any segment that is not empty, any other is the same text
SegmentsFit(tsegs, psegs) ==
    /\ Len(tsegs) = Len(psegs)
    /\ \A i \in 1..Len(tsegs) :
          IF IsParamSegment(tsegs[i]) THEN psegs[i] # <<>> ELSE psegs[i] = tsegs[i]

\* the path without one trailing slash
Untrailed(path) ==
    IF Len(path) > 0 /\ path[Len(path)] = "/" THEN SubSeq(path, 1, Len(path) - 1) ELSE path

\* the template accepts the whole path, a trailing slash being optional
Accepts(template, path) ==
    \/ SegmentsFit(Split(template), Split(path))
    \/ path # Untrailed(path) /\ SegmentsFit(Split(template), Split(Untrailed(path)))

\* the template's parameter names with the path's segments at their places
RECURSIVE Zip(_, _)
Zip(tsegs, psegs) ==
    IF tsegs = <<>> THEN <<>>
    ELSE (IF IsParamSegment(tsegs[1]) THEN <<<<Tail(tsegs[1]), psegs[1]>>>> ELSE <<>>)
             \o Zip(Tail(tsegs), Tail(psegs))

Captured(template, path) ==
    IF SegmentsFit(Split(template), Split(path))
    THEN Zip(Split(template), Split(path))
    ELSE Zip(Split(template), Split(Untrailed(path)))

\* the method keyword, route text and body text of a request line
MethodOf(msg) == ToUpperCase(SplitWs(Trim(msg.command))[1])
RawRouteOf(msg) ==
    IF Len(SplitWs(Trim(msg.command))) >= 2 THEN SplitWs(Trim(msg.command))[2] ELSE <<"/">>
BodyTextOf(msg) ==
    Join(SubSeq(SplitWs(Trim(msg.command)), 3, Len(SplitWs(Trim(msg.command)))))
PathOf(msg) == Pathname(DecodeURIComponent(RawRouteOf(msg)).value)

\* the message is a request line addressed to the server by somebody else
IsRequest(msg) ==
    /\ msg.author # selfId /\ msg.addressed
    /\ Trim(msg.command) \notin {<<>>, DocsCommand, RoutesCommand}

\* the message is a request with a known method, a route that decodes, and
\* a body that is absent or JSON
IsDispatchable(msg) ==
    /\ IsRequest(msg)
    /\ MethodOf(msg) \in HttpMethods
    /\ DecodeURIComponent(RawRouteOf(msg)).ok
    /\ BodyTextOf(msg) \in {<<>>, <<"{", "}">>, <<"7">>, <<"\"", "b", " ", "c", "\"">>}

\* the routes of the table that have the method and accept the path
Candidates(table, method, path) ==
    {i \in 1..Len(table) : table[i].method = method /\ Accepts(table[i].path, path)}

\* C10: a request is dispatched to the earliest registered route with its
\* method whose template accepts its whole path, with the captured segments
\* as params, and to no route when there is none; the table only grows
C10_FirstMatchWins ==
    /\ [](last.kind = "message" /\ IsDispatchable(last.msg) =>
            LET r == last.req
                cands == Candidates(last.routes, MethodOf(last.msg), PathOf(last.msg))
            IN  IF cands = {}
                THEN reqs[r].state = "replied" /\ reqs[r].route = 0
                ELSE /\ reqs[r].state = "running"
                     /\ reqs[r].route \in cands
                     /\ \A i \in cands : reqs[r].route <= i
                     /\ reqs[r].params =
                            Captured(last.routes[reqs[r].route].path, PathOf(last.msg)))
    /\ [][routes' # routes =>
            Len(routes') = Len(routes) + 1 /\ SubSeq(routes', 1, Len(routes)) = routes]_vars

\* GET /a was sent with /:x registered before /a: the first was dispatched
C10_Witness ==
    /\ last.kind = "message"
    /\ last.msg = Request(<<"g", "e", "t">>, <<"/", "a">>, <<>>)
    /\ Len(routes) = 2
    /\ routes[1].method = GET /\ routes[1].path = <<"/", ":", "x">>
    /\ routes[2].method = GET /\ routes[2].path = <<"/", "a">>
    /\ reqs[last.req].route = 1
    /\ reqs[last.req].params = << <<<<"x">>, <<"a">>>> >>

(***************************************************************************)
(* The replies the server makes up: 400, 404.                              *)
(***************************************************************************)
\* the request handled last, and what came of it
Handled(msg) == last.kind = "message" /\ last.msg = msg
RepliedOnly(r, line) ==
    replies[r] = <<line>> /\ reqs[r].state = "replied" /\ reqs[r].route = 0

\* once a request was answered by the server itself, no handler runs for it
\* and nothing more is sent to it
StaysReplied ==
    [][\A r \in Requests :
          reqs[r].state = "replied" => reqs'[r] = reqs[r] /\ replies'[r] = replies[r]]_vars

\* C11: a request line whose method keyword is none of GET, POST, PUT, PATCH,
\* DELETE gets exactly one reply, 400 with an error naming the method, and no
\* handler is invoked, whatever its route text and body text are
C11_InvalidMethod400 ==
    \A msg \in ServerMessages :
        Handled(msg) /\ IsRequest(msg) /\ MethodOf(msg) \notin HttpMethods =>
            RepliedOnly(last.req, Line(400, ErrorBody(<<"Invalid method", MethodOf(msg)>>)))

\* body texts that are no JSON
InvalidBodyTexts == { <<"x">>, <<"{", "}", " ", "x">> }

\* the request has a known method and a route that decodes to a path
HasPath(msg) ==
    IsRequest(msg) /\ MethodOf(msg) \in HttpMethods /\ DecodeURIComponent(RawRouteOf(msg)).ok

\* C12: a request with a known method, a path a registered route accepts and
\* a body text that is no JSON gets exactly one reply, 400 "Invalid JSON
\* body"; no handler is invoked for it, then or later
C12_InvalidBody400 ==
    /\ [](\A msg \in ServerMessages :
            /\ Handled(msg) /\ HasPath(msg)
            /\ Candidates(last.routes, MethodOf(msg), PathOf(msg)) # {}
            /\ BodyTextOf(msg) \in InvalidBodyTexts
            => RepliedOnly(last.req, Line(400, ErrorBody(<<"Invalid JSON body">>))))
    /\ StaysReplied

\* POST /a x was sent with two POST routes registered that accept /a, and
\* was answered with the one 400
C12_Witness ==
    /\ Handled(Request(POST, <<"/", "a">>, <<"x">>))
    /\ Cardinality(Candidates(routes, POST, <<"/", "a">>)) = 2
    /\ replies[last.req] = <<Line(400, ErrorBody(<<"Invalid JSON body">>))>>

C14_RoundTrip ==
    \A call \in ClientCalls :
        Handled(ClientMessage(call)) /\ reqs[last.req].state = "running" =>
            /\ reqs[last.req].method = call.method
            /\ reqs[last.req].pathname = call.path
            /\ reqs[last.req].query = {call.query[i] : i \in 1..Len(call.query)}
            /\ reqs[last.req].body = IF call.body = Undefined THEN JNull ELSE call.body

(***************************************************************************)
(* The routes command.                                                     *)
(***************************************************************************)
\* C15: the reply to the routes command is one line with status 200 whose
\* body lists method, path and docs of every registered route, one entry per
\* registration, in registration order; a registration appends its route to
\* the table and nothing else changes the table; no handler is invoked
C15_RoutesListed ==
    /\ [](Handled(Command("client", TRUE, RoutesCommand)) =>
            /\ reqs[last.req].state = "replied" /\ reqs[last.req].route = 0
            /\ Len(replies[last.req]) = 1
            /\ replies[last.req][1].kind = "line"
            /\ replies[last.req][1].status = 200
            /\ Len(replies[last.req][1].body) = Len(last.routes)
            /\ \A i \in 1..Len(last.routes) :
                  replies[last.req][1].body[i] =
                      [method |-> last.routes[i].method, path |-> last.routes[i].path,
                       docs |-> last.routes[i].docs])
    /\ [][IF last'.kind = "register"
          THEN /\ Len(routes') = Len(routes) + 1
               /\ SubSeq(routes', 1, Len(routes)) = routes
               /\ routes'[Len(routes')].method = last'.method
               /\ routes'[Len(routes')].path = last'.path
               /\ routes'[Len(routes')].docs = last'.docs
          ELSE routes' = routes]_vars
    /\ StaysReplied

\* GET /:x was registered without docs, then GET /a with docs, and the
\* routes command was answered with the two entries in that order
C15_Witness ==
    /\ Handled(Command("client", TRUE, RoutesCommand))
    /\ replies[last.req] =
           <<Line(200, << [method |-> GET, path |-> <<"/", ":", "x">>, docs |-> "undefined"],
                          [method |-> GET, path |-> <<"/", "a">>, docs |-> "docs"] >>)>>

(***************************************************************************)
(* docs() and routes().                                                    *)
(***************************************************************************)
SameKind(a, b) == (a \in DocsCalls) <=> (b \in DocsCalls)

\* C16: of two calls of docs(), or of routes(), one rejected because no
\* reply came within the wait, one because the reply that came has not the
\* expected shape, the Errors have different messages
C16_DistinctRejections ==
    \A a, b \in OneShotCalls :
        /\ SameKind(a, b)
        /\ oneShots[a].settled = "rejected" /\ oneShots[a].cause = "time"
        /\ oneShots[b].settled = "rejected" /\ oneShots[b].cause = "shape"
        => oneShots[a].error # oneShots[b].error

\* the reply lines whose body is a list of route entries
RouteListReplies == { <<"2", "0", "0", " ", "[", "]">> }

\* C17: once routes() has collected its reply, it has resolved if the body
\* of the reply is a list of route entries, and has rejected with a
\* "Malformed routes response" Error if it is anything else
C17_RoutesValidated ==
    \A i \in RoutesCalls :
        oneShots[i].phase = "done" /\ oneShots[i].cause # "time" =>
            IF oneShots[i].reply \in RouteListReplies
            THEN oneShots[i].settled = "resolved" /\ oneShots[i].value = JArray
            ELSE oneShots[i].settled = "rejected"
                 /\ oneShots[i].error \in {NoSeparator, InvalidJson}

(***************************************************************************)
(* Concurrent requests.                                                    *)
(***************************************************************************)
\* C18: whatever the server does for a request, the handling of its message
\* or a step of its handler, sends replies to that request's message only
\* and touches that request's Response only: the replies to every other
\* request and its Response stay as they are, and nothing sent is taken back
C18_RepliesToOwnRequest ==
    [][\A r \in Requests :
          last'.kind \in {"message", "status", "json", "return", "throw"} /\ last'.req = r =>
              /\ \A q \in Requests \ {r} : replies'[q] = replies[q] /\ reqs'[q] = reqs[q]
              /\ Len(replies'[r]) >= Len(replies[r])
              /\ SubSeq(replies'[r], 1, Len(replies[r])) = replies[r]
              /\ \A i \in 1..Len(replies'[r]) :
                    replies'[r][i].kind = "line" /\ replies'[r][i].status = 500
                        => reqs'[r].state \in {"running", "returned", "threw"}]_vars

\* two handlers are suspended, the first after an intermediate reply; the
\* second has just sent its final reply, and the first one's Response is
\* still open
C18_Witness ==
    /\ last.kind = "json" /\ last.req = 2
    /\ reqs[1].state = "running" /\ reqs[2].state = "running"
    /\ replies[1] = <<Line(100, JObject)>> /\ ~reqs[1].res.sentFinal
    /\ replies[2] = <<Line(200, JObject)>> /\ reqs[2].res.sentFinal

(***************************************************************************)
(* Keep-alives and the timer; the wait between send and registration.      *)
(***************************************************************************)
\* the well-formed reply lines with a status in [100,200)
KeepAliveLines == { w[2] : w \in {v \in WellFormed : v[1] >= 100 /\ v[1] < 200} }

\* C19: a call that has handled a well-formed intermediate reply has its
\* timer disarmed and is never rejected by a timeout, however message and
\* timer callbacks interleave; a further intermediate reply, the timer
\* disarmed already, invokes onUpdate once more and changes nothing else,
\* the entry stays live
C19_DisarmedBeforeUpdate ==
    /\ [](\A c \in Calls :
            calls[c].keepAlives > 0 =>
                calls[c].timer = "cleared" /\ calls[c].outcome # TimeoutError)
    /\ [][\A c \in Calls, content \in KeepAliveLines :
            HandlesCorrelated(c, content) /\ calls[c].timer = "cleared" =>
                /\ calls'[c] = [calls[c] EXCEPT
                                   !.keepAlives = @ + 1,
                                   !.updates = IF calls[c].onUpdate THEN @ + 1 ELSE @]
                /\ Live(c)']_vars

\* a call with onUpdate was kept alive twice and is live, not settled, past
\* its timeout
C19_Witness ==
    \E c \in Calls :
        /\ calls[c].updates = 2 /\ calls[c].keepAlives = 2
        /\ Live(c) /\ ~Settled(c)
        /\ calls[c].age >= Timeout
        /\ last = [kind |-> "tick"]

\* C20: a well-formed final reply of the target to the request of a call,
\* arriving after the request was sent and before the call is settled,
\* resolves the call, whether or not the pending entry is registered yet
C20_NoReplyLost ==
    [][\A c \in Calls :
          /\ last'.kind = "reply"
          /\ last'.msg = Message(targetBotId, c, Content200)
          /\ calls[c].phase \in {"sent", "registered"}
          /\ ~Settled(c)
          => calls'[c].outcome = Resolved(200, JObject)]_vars

(***************************************************************************)
(* The pending table.                                                      *)
(***************************************************************************)
\* the reply lines of the channel with a status >= 200
FinalReplyLines == { <<"2", "0", "0", " ", "{", "}">>, <<"2", "0", "0", " ", "x">>,
                     <<"2", "0", "0", "{", "}">> }

\* C21: a call has a live entry exactly when it is registered and not
\* settled; a live entry has its timer armed or has handled a well-formed
\* reply with a status in [100,200); a settled call has no entry and no
\* armed timer; and the entry of a call that was kept alive is removed by
\* nothing but a reply with a status >= 200
C21_PendingTable ==
    /\ [](\A c \in Calls :
            /\ Live(c) <=> (calls[c].phase = "registered" /\ ~Settled(c))
            /\ Live(c) => calls[c].timer = "armed" \/ calls[c].keepAlives > 0
            /\ Settled(c) => ~Live(c) /\ calls[c].timer # "armed")
    /\ [][\A c \in Calls :
            Live(c) /\ calls[c].keepAlives > 0 /\ ~Live(c)' =>
                /\ last'.kind = "reply"
                /\ last'.msg.ref = c
                /\ last'.msg.content \in FinalReplyLines]_vars

(***************************************************************************)
(* json() when the reply cannot be serialised or sent.                     *)
(***************************************************************************)
\* the data json() fails on
FailingData == {Circular, TooLong}

====
